---- MODULE Spec2Model ----
(***************************************************************************)
(* Model of the labour-market dashboard: the refresh pipeline of           *)
(* ibge_data_fetcher.py (IBGEDataFetcher) and the script run of            *)
(* frontend_app.py (main, load_data, filter_data, handle_data_update).     *)
(*                                                                         *)
(* Numbers with one decimal are held as integers in tenths (53.8 = 538).   *)
(* A table is a sequence of rows; a file is [exists, rows].                *)
(***************************************************************************)
EXTENDS Integers, Sequences, FiniteSets, TLC

(* ------------------------------ bounds --------------------------------- *)
\* last calendar year the session clock can show
MaxYear == 2034
\* number of year changes the clock can make during one session
MaxTicks == 1
\* rows that reach the disk when a to_csv call fails after opening the file
MaxPartialRows == 1
\* longest table given to filter_data in the function-level specification
MaxRows == 3
\* largest number of series entries in a payload of _process_employment_data
MaxEntries == 2
\* the longest table given to a join
MaxJoinRows == 3
\* the longest interest-rate series
MaxPoints == 12
\* the longest list in a response body
MaxBodyEntries == 1

(* ------------------------- program constants --------------------------- *)
\* range(2014, current_year + 1)
EpochYear == 2014
\* the window of the moving average of the interest rates
RollingWindow == 6
\* min(construcao_rate, 65), in tenths
ConstrucaoCap == 650
\* max(imobiliarias_rate, 35), in tenths
ImobiliariasFloor == 350

(* ------------------------------ helpers -------------------------------- *)
Min2(a, b) == IF a <= b THEN a ELSE b
Max2(a, b) == IF a >= b THEN a ELSE b

\* round(num/den) to the nearest integer, halves upwards (num >= 0, den > 0)
RoundHalfUp(num, den) == (2 * num + den) \div (2 * den)

\* Years y for which the double 1.9 + (y - 2014) * 0.05 lies above the decimal
\* half-way point, so that round(total_ocupados, 1) goes up; in the other odd
\* years the double lies below it and the value goes down.
ImobTotalRoundsUp == {2023, 2025, 2031, 2033, 2035, 2043, 2045, 2051, 2053, 2055, 2059}

(* ---------------- get_informality_rate_data (fetcher) ------------------ *)
\* construcao_rate = 53.8 + (year - 2014) * 0.5 + (year % 2) * 2, capped
ConstrucaoRateUncapped(year) == 538 + (year - EpochYear) * 5 + (year % 2) * 20

\* the rate without the cap
ConstrucaoRate_NoCap(year) == ConstrucaoRateUncapped(year)

ConstrucaoRate(year) == Min2(ConstrucaoRateUncapped(year), ConstrucaoCap)

\* imobiliarias_rate = 42.1 + (year - 2014) * 0.2 - (year % 3) * 1, floored
ImobiliariasRateUnfloored(year) == 421 + (year - EpochYear) * 2 - (year % 3) * 10

ImobiliariasRate(year) == Max2(ImobiliariasRateUnfloored(year), ImobiliariasFloor)

\* range(2014, current_year): the current year is left out
get_informality_rate_data_ShortRange(year_now) ==
    LET n == IF year_now >= EpochYear THEN year_now - EpochYear ELSE 0
    IN  [construcao   |-> [k \in 1..n |->
                             [Ano |-> EpochYear + k - 1,
                              Taxa_Informalidade |-> ConstrucaoRate(EpochYear + k - 1)]],
         imobiliarias |-> [k \in 1..n |->
                             [Ano |-> EpochYear + k - 1,
                              Taxa_Informalidade |-> ImobiliariasRate(EpochYear + k - 1)]]]

\* years = list(range(2014, current_year + 1)); one entry per sector and year
get_informality_rate_data(year_now) ==
    LET n == IF year_now >= EpochYear THEN year_now - EpochYear + 1 ELSE 0
    IN  [construcao   |-> [k \in 1..n |->
                             [Ano |-> EpochYear + k - 1,
                              Taxa_Informalidade |-> ConstrucaoRate(EpochYear + k - 1)]],
         imobiliarias |-> [k \in 1..n |->
                             [Ano |-> EpochYear + k - 1,
                              Taxa_Informalidade |-> ImobiliariasRate(EpochYear + k - 1)]]]

(* -------------------- update_local_data: the rows ---------------------- *)
\* conta_propria = total_ocupados - com_carteira: sem_carteira is not taken off
ContaPropriaNum_NoSem(totalNum, comNum, semNum) == totalNum - comNum

\* conta_propria = total_ocupados - com_carteira - sem_carteira, numerator
\* over the common denominator den of the three terms
ContaPropriaNum(totalNum, comNum, semNum) == totalNum - comNum - semNum

\* one construction row; total_ocupados = 7.0 + (year - 2014) * 0.1
ConstrucaoRow(row) ==
    LET year == row.Ano
        r    == row.Taxa_Informalidade
        t    == 70 + (year - EpochYear)            \* tenths
        com  == t * (1000 - r) * 6                 \* tenths * 10000
        sem  == t * r * 4                          \* tenths * 10000
    IN  [Ano          |-> year,
         Total        |-> t,
         ComCarteira  |-> RoundHalfUp(com, 10000),
         SemCarteira  |-> RoundHalfUp(sem, 10000),
         ContaPropria |-> RoundHalfUp(ContaPropriaNum(t * 10000, com, sem), 10000),
         Saldo        |-> (year - 2020) * 50 + 100,
         Taxa         |-> r]

\* one real-estate row; total_ocupados = 1.9 + (year - 2014) * 0.05
ImobiliariasRow(row) ==
    LET year == row.Ano
        r    == row.Taxa_Informalidade
        t    == 190 + (year - EpochYear) * 5       \* hundredths
        com  == t * (1000 - r) * 7                 \* tenths * 100000
        sem  == t * r * 3                          \* tenths * 100000
    IN  [Ano          |-> year,
         Total        |-> IF t % 10 = 5
                          THEN (IF year \in ImobTotalRoundsUp THEN t \div 10 + 1 ELSE t \div 10)
                          ELSE RoundHalfUp(t, 10),
         ComCarteira  |-> RoundHalfUp(com, 100000),
         SemCarteira  |-> RoundHalfUp(sem, 100000),
         ContaPropria |-> RoundHalfUp(ContaPropriaNum(t * 10000, com, sem), 100000),
         Saldo        |-> (year - 2020) * 20 + 30,
         Taxa         |-> r]

\* the two lists construcao_complete and imobiliarias_complete
Normalize(informality_data) ==
    [construcao   |-> [k \in 1..Len(informality_data.construcao) |->
                          ConstrucaoRow(informality_data.construcao[k])],
     imobiliarias |-> [k \in 1..Len(informality_data.imobiliarias) |->
                          ImobiliariasRow(informality_data.imobiliarias[k])]]

(* ----------------------------- the files ------------------------------- *)
F_CONSTRUCAO           == "tabela1_construcao_civil.csv"
F_IMOBILIARIAS         == "tabela2_atividades_imobiliarias.csv"
F_CONSTRUCAO_UPDATED   == "tabela1_construcao_civil_updated.csv"
F_IMOBILIARIAS_UPDATED == "tabela2_atividades_imobiliarias_updated.csv"
F_FGTS                 == "fgts_arrecadacao.csv"

FileNames == {F_CONSTRUCAO, F_IMOBILIARIAS, F_CONSTRUCAO_UPDATED,
              F_IMOBILIARIAS_UPDATED, F_FGTS}

NoFile == [exists |-> FALSE, rows |-> <<>>]
FileOf(rows) == [exists |-> TRUE, rows |-> rows]

\* The bundled tables: three years before and up to the epoch year.
BundledConstrucao ==
    [k \in 1..3 |-> [Ano |-> 2011 + k, Total |-> 75 + k, ComCarteira |-> 20 + k,
                     SemCarteira |-> 17, ContaPropria |-> 38,
                     Saldo |-> 100 - 40 * k, Taxa |-> 520 + 6 * k]]

BundledImobiliarias ==
    [k \in 1..3 |-> [Ano |-> 2011 + k, Total |-> 17 + k, ComCarteira |-> 8,
                     SemCarteira |-> 2 + k, ContaPropria |-> 7,
                     Saldo |-> 10 * k, Taxa |-> 430 - 4 * k]]

\* a real-estate table that starts a year after the construction table
BundledImobiliariasShort == SubSeq(BundledImobiliarias, 2, 3)

BundledFgts ==
    [k \in 1..2 |-> [Ano |-> 2012 + k, Arrecadacao_Bruta_R_Bilhoes |-> 90 + 10 * k]]

\* what an earlier session's refresh (run in the epoch year) left on disk
EarlierRefresh == Normalize(get_informality_rate_data(EpochYear))

(* ------------------------------ load_data ------------------------------ *)
\* None is the empty sequence, a value v is <<v>>
None == <<>>
Some(v) == <<v>>

LoadFailure ==
    [df_construcao |-> None, df_imobiliarias |-> None, df_fgts |-> None,
     using_updated |-> FALSE]

\* the two paths without the prefix, whatever the selector is
prefixed_Ignored(use_updated) == <<F_CONSTRUCAO, F_IMOBILIARIAS>>

\* prefix = "_updated" if use_updated else "": the two paths load_data reads
prefixed(use_updated) ==
    IF use_updated THEN <<F_CONSTRUCAO_UPDATED, F_IMOBILIARIAS_UPDATED>>
    ELSE <<F_CONSTRUCAO, F_IMOBILIARIAS>>

\* load_data that reads a missing file as an empty table
load_data_EmptyOnMissing(fs, use_updated) ==
    LET c == IF use_updated THEN F_CONSTRUCAO_UPDATED ELSE F_CONSTRUCAO
        i == IF use_updated THEN F_IMOBILIARIAS_UPDATED ELSE F_IMOBILIARIAS
    IN  [df_construcao   |-> Some(fs[c].rows),
         df_imobiliarias |-> Some(fs[i].rows),
         df_fgts         |-> IF fs[F_FGTS].exists THEN Some(fs[F_FGTS].rows) ELSE None,
         using_updated   |-> use_updated]

\* the body of load_data: both files of the chosen prefix, then the FGTS file
load_data(fs, use_updated) ==
    LET c == prefixed(use_updated)[1]
        i == prefixed(use_updated)[2]
    IN  IF ~fs[c].exists \/ ~fs[i].exists
        THEN LoadFailure
        ELSE [df_construcao   |-> Some(fs[c].rows),
              df_imobiliarias |-> Some(fs[i].rows),
              df_fgts         |-> IF fs[F_FGTS].exists THEN Some(fs[F_FGTS].rows) ELSE None,
              using_updated   |-> use_updated]

\* st.cache_data: one entry per argument value, None when not computed yet
EmptyCache == [v \in BOOLEAN |-> None]

\* a clear that leaves the entries where they are
cache_clear_Kept(c) == c

\* st.cache_data.clear()
cache_clear(c) == EmptyCache

(* ----------------------------- filter_data ----------------------------- *)
\* the mask with the last year of the range left out
YearMask_OpenEnd(df, anos) ==
    [k \in 1..Len(df) |-> df[k].Ano >= anos[1] /\ df[k].Ano < anos[2]]

\* the mask with the first year of the range used for both ends
YearMask_FirstOnly(df, anos) ==
    [k \in 1..Len(df) |-> df[k].Ano >= anos[1] /\ df[k].Ano <= anos[1]]

\* the boolean mask (df['Ano'] >= anos[0]) & (df['Ano'] <= anos[1])
YearMask(df, anos) == [k \in 1..Len(df) |-> df[k].Ano >= anos[1] /\ df[k].Ano <= anos[2]]

\* df[mask]: the rows whose mask entry is true, in their order
RECURSIVE BooleanIndex(_, _)
BooleanIndex(df, mask) ==
    IF df = <<>> THEN <<>>
    ELSE (IF Head(mask) THEN <<Head(df)>> ELSE <<>>) \o BooleanIndex(Tail(df), Tail(mask))

FilterOne(df, anos) == BooleanIndex(df, YearMask(df, anos))

filter_data(df_construcao, df_imobiliarias, anos_selecionados) ==
    <<FilterOne(df_construcao, anos_selecionados),
      FilterOne(df_imobiliarias, anos_selecionados)>>

(* ------------------------------- state --------------------------------- *)
VARIABLES
    files,              \* file name -> [exists, rows]
    cache,              \* st.cache_data of load_data
    session_state,      \* st.session_state: a function on the keys that are set
    current_year,       \* datetime.now().year
    ticks,              \* year changes seen so far
    pc,                 \* position of the script run
    click,              \* the widget whose click started this run
    offered,            \* buttons on the page
    loaded,             \* what load_data returned in this run
    anos_selecionados,  \* the slider's value
    filtered,           \* what filter_data returned in this run
    mem,                \* construcao_complete / imobiliarias_complete
    shown,              \* the data-source texts on the page
    view_option,        \* the view main routed to
    df_combined,        \* the table the FGTS view builds
    hist,               \* history of the session, for the properties
    filt,               \* function-level run of filter_data
    proc,               \* function-level run of _process_employment_data
    call                \* function-level run of a join, a rolling mean or a fetch

vars == <<files, cache, session_state, current_year, ticks, pc, click, offered,
          loaded, anos_selecionados, filtered, mem, shown, view_option, df_combined,
          hist, filt, proc, call>>

\* what a run writes on the page and the locals of the view
pageVars == <<shown, view_option, df_combined>>

NoTables == [construcao |-> <<>>, imobiliarias |-> <<>>]

NoHist ==
    [lastOp       |-> "none",      \* last of: successful refresh, reset
     outcome      |-> "none",      \* of the last refresh: none, running, ok, failed
     in_run       |-> FALSE,       \* a refresh was attempted in this run
     pre          |-> [f \in FileNames |-> NoFile],  \* files when it began
     flag_before  |-> FALSE,       \* data_updated when it began
     good_before  |-> None,        \* last successful load when it began
     last_good    |-> None,        \* last successful load
     load_failed  |-> FALSE,       \* the last load returned no tables
     refresh_year |-> 0,           \* clock of the last successful refresh
     fresh        |-> FALSE,       \* no refresh was attempted since that one
     cache_hit    |-> FALSE,       \* the load of this run was served by the cache
     ss_begin     |-> <<>>]        \* session_state when this run began

\* the part of the history that is about the current run is forgotten with it
EndRun(h) ==
    [h EXCEPT !.outcome = "none", !.in_run = FALSE, !.pre = NoHist.pre,
              !.flag_before = FALSE, !.good_before = None, !.cache_hit = FALSE,
              !.ss_begin = <<>>]

\* the locals of main before they are assigned, and after the run has ended
NoSelection == <<0, 0>>
NoFiltered == <<<<>>, <<>>>>

\* nothing shown yet
NoShown == [source |-> "none", status |-> "none"]
\* no view chosen, no table built by a view
NoView == "none"
NoCombined == [joined |-> FALSE, rows |-> <<>>]

FiltIdle == [phase |-> "off"]
ProcIdle == [phase |-> "off"]
CallIdle == [phase |-> "off"]

\* which of the data files a session can find on disk when it starts
InitialFiles ==
    { [f \in FileNames |->
          CASE f = F_CONSTRUCAO           -> IF oc THEN FileOf(BundledConstrucao) ELSE NoFile
            [] f = F_IMOBILIARIAS         -> IF oi = "full" THEN FileOf(BundledImobiliarias)
                                             ELSE IF oi = "short"
                                                  THEN FileOf(BundledImobiliariasShort)
                                                  ELSE NoFile
            [] f = F_CONSTRUCAO_UPDATED   -> IF up THEN FileOf(EarlierRefresh.construcao) ELSE NoFile
            [] f = F_IMOBILIARIAS_UPDATED -> IF up THEN FileOf(EarlierRefresh.imobiliarias) ELSE NoFile
            [] OTHER                      -> IF fg THEN FileOf(BundledFgts) ELSE NoFile]
      : oc \in BOOLEAN, oi \in {"none", "full", "short"}, up \in BOOLEAN,
        fg \in BOOLEAN }

\* the clock values a session is started at
InitialYears == {EpochYear - 1, MaxYear - 1}

Init ==
    /\ files \in InitialFiles
    /\ cache = EmptyCache
    /\ session_state = <<>>
    /\ current_year \in InitialYears
    /\ ticks = 0
    /\ pc = "idle"
    /\ click = "none"
    /\ offered = {}
    /\ loaded = LoadFailure
    /\ anos_selecionados = NoSelection
    /\ filtered = NoFiltered
    /\ mem = NoTables
    /\ shown = NoShown
    /\ view_option = NoView
    /\ df_combined = NoCombined
    /\ hist = NoHist
    /\ filt = FiltIdle
    /\ proc = ProcIdle
    /\ call = CallIdle

(* ------------------------- session_state access ------------------------ *)
Put(ss, key, value) == [k \in DOMAIN ss \cup {key} |-> IF k = key THEN value ELSE ss[k]]

\* initialize_session_state without the test: the flag is set false in every run
initialize_session_state_Always(ss) == Put(ss, "data_updated", FALSE)

\* initialize_session_state
initialize_session_state(ss) ==
    IF "data_updated" \in DOMAIN ss THEN ss ELSE Put(ss, "data_updated", FALSE)

(* ------------------------------ main ---------------------------------- *)
\* A script run starts: on a user interaction (pc = "idle") or on st.rerun().
\* main up to the check of update_requested.
main_begin ==
    /\ pc \in {"idle", "rerun"}
    /\ \E c \in (IF pc = "idle" THEN {"none"} \cup offered ELSE {"none"}) :
          click' = c
    /\ LET ss == initialize_session_state(session_state)
       IN  IF "update_requested" \in DOMAIN ss /\ ss["update_requested"]
           THEN /\ session_state' = Put(ss, "update_requested", FALSE)
                /\ pc' = "handle_data_update"
           ELSE /\ session_state' = ss
                /\ pc' = "load_data"
    /\ offered' = {}
    /\ shown' = NoShown
    /\ hist' = [hist EXCEPT !.ss_begin = initialize_session_state(session_state)]
    /\ UNCHANGED <<files, cache, current_year, ticks, loaded, anos_selecionados,
                   filtered, mem, view_option, df_combined, filt, proc, call>>

\* handle_data_update: st.cache_data.clear(), then fetch_online_data() begins
handle_data_update_begin ==
    /\ pc = "handle_data_update"
    /\ cache' = cache_clear(cache)
    /\ mem' = NoTables
    /\ hist' = [hist EXCEPT !.outcome = "running", !.in_run = TRUE, !.pre = files,
                            !.fresh = FALSE,
                            !.flag_before = session_state["data_updated"],
                            !.good_before = hist.last_good]
    /\ pc' = "update_local_data"
    /\ UNCHANGED <<files, session_state, current_year, ticks, click, offered, loaded,
                   anos_selecionados, filtered, filt, proc, call>>
    /\ UNCHANGED pageVars

\* update_local_data up to the two DataFrames: get_informality_rate_data and
\* the two loops.  An exception in here is caught by update_local_data, which
\* then returns False; an empty informality table also returns False.
update_normalize ==
    /\ pc = "update_local_data"
    /\ LET informality_data == get_informality_rate_data(current_year)
       IN  \/ /\ pc' = "update_failed"                       \* an exception
              /\ mem' = mem
           \/ /\ informality_data.construcao = <<>>          \* .empty
              /\ pc' = "update_failed"
              /\ mem' = mem
           \/ /\ informality_data.construcao # <<>>
              /\ mem' = Normalize(informality_data)
              /\ pc' = "write_construcao"
    /\ UNCHANGED <<files, cache, session_state, current_year, ticks, click, offered,
                   loaded, anos_selecionados, filtered, hist, filt, proc, call>>
    /\ UNCHANGED pageVars

\* what a to_csv call that raises can leave in the file: the file as it was
\* (it could not be opened) or the first rows of the new table
ToCsvFailures(old, rows) ==
    {old} \cup { FileOf(SubSeq(rows, 1, n)) : n \in 0..Min2(MaxPartialRows, Len(rows) - 1) }

\* df.to_csv(path): the file holds the table afterwards
ToCsv(rows) == FileOf(rows)

\* the construction table written over the bundled file
write_construcao_NoSuffix ==
    /\ pc = "write_construcao"
    /\ \/ /\ files' = [files EXCEPT ![F_CONSTRUCAO] = ToCsv(mem.construcao)]
          /\ pc' = "write_imobiliarias"
       \/ /\ \E left \in ToCsvFailures(files[F_CONSTRUCAO], mem.construcao) :
                files' = [files EXCEPT ![F_CONSTRUCAO] = left]
          /\ pc' = "update_failed"
    /\ UNCHANGED <<cache, session_state, current_year, ticks, click, offered, loaded,
                   anos_selecionados, filtered, mem, hist, filt, proc, call>>
    /\ UNCHANGED pageVars

\* df_construcao_updated.to_csv(...)
write_construcao ==
    /\ pc = "write_construcao"
    /\ \/ /\ files' = [files EXCEPT ![F_CONSTRUCAO_UPDATED] = ToCsv(mem.construcao)]
          /\ pc' = "write_imobiliarias"
       \/ /\ \E left \in ToCsvFailures(files[F_CONSTRUCAO_UPDATED], mem.construcao) :
                files' = [files EXCEPT ![F_CONSTRUCAO_UPDATED] = left]
          /\ pc' = "update_failed"
    /\ UNCHANGED <<cache, session_state, current_year, ticks, click, offered, loaded,
                   anos_selecionados, filtered, mem, hist, filt, proc, call>>
    /\ UNCHANGED pageVars

\* df_imobiliarias_updated.to_csv(...)
write_imobiliarias ==
    /\ pc = "write_imobiliarias"
    /\ \/ /\ files' = [files EXCEPT ![F_IMOBILIARIAS_UPDATED] = ToCsv(mem.imobiliarias)]
          /\ pc' = "update_succeeded"
       \/ /\ \E left \in ToCsvFailures(files[F_IMOBILIARIAS_UPDATED], mem.imobiliarias) :
                files' = [files EXCEPT ![F_IMOBILIARIAS_UPDATED] = left]
          /\ pc' = "update_failed"
    /\ UNCHANGED <<cache, session_state, current_year, ticks, click, offered, loaded,
                   anos_selecionados, filtered, mem, hist, filt, proc, call>>
    /\ UNCHANGED pageVars

\* handle_data_update after fetch_online_data() returned True
handle_data_update_success ==
    /\ pc = "update_succeeded"
    /\ session_state' = Put(session_state, "data_updated", TRUE)
    /\ hist' = EndRun([hist EXCEPT !.lastOp = "refresh", !.fresh = TRUE,
                                   !.refresh_year = current_year])
    /\ mem' = NoTables
    /\ pc' = "rerun"
    /\ click' = "none"
    /\ UNCHANGED <<files, cache, current_year, ticks, offered, loaded,
                   anos_selecionados, filtered, filt, proc, call>>
    /\ UNCHANGED pageVars

\* handle_data_update after fetch_online_data() returned False
handle_data_update_failure ==
    /\ pc = "update_failed"
    /\ hist' = [hist EXCEPT !.outcome = "failed"]
    /\ mem' = NoTables
    /\ pc' = "load_data"
    /\ UNCHANGED <<files, cache, session_state, current_year, ticks, click, offered,
                   loaded, anos_selecionados, filtered, filt, proc, call>>
    /\ UNCHANGED pageVars

\* main without the return after the diagnostic: a failed load goes on to the
\* sidebar
main_load_NoReturn ==
    /\ pc = "load_data"
    /\ LET v   == session_state["data_updated"]
           res == IF cache[v] # None THEN cache[v][1] ELSE load_data(files, v)
       IN  /\ cache' = [cache EXCEPT ![v] = Some(res)]
           /\ pc' = "create_sidebar"
           /\ click' = click
           /\ loaded' = res
           /\ hist' = IF res.df_construcao = None \/ res.df_imobiliarias = None
                      THEN [hist EXCEPT !.load_failed = TRUE]
                      ELSE [hist EXCEPT !.last_good = Some(res), !.load_failed = FALSE,
                                        !.cache_hit = cache[v] # None]
    /\ UNCHANGED <<files, session_state, current_year, ticks, offered,
                   anos_selecionados, filtered, mem, filt, proc, call>>
    /\ UNCHANGED pageVars

\* main: load_data(st.session_state.data_updated) through the cache, and the
\* check that stops the run
main_load ==
    /\ pc = "load_data"
    /\ LET v   == session_state["data_updated"]
           res == IF cache[v] # None THEN cache[v][1] ELSE load_data(files, v)
       IN  /\ cache' = [cache EXCEPT ![v] = Some(res)]
           /\ IF res.df_construcao = None \/ res.df_imobiliarias = None
              THEN /\ pc' = "idle"
                   /\ click' = "none"
                   /\ loaded' = LoadFailure
                   /\ hist' = EndRun([hist EXCEPT !.load_failed = TRUE])
              ELSE /\ pc' = "create_sidebar"
                   /\ click' = click
                   /\ loaded' = res
                   /\ hist' = [hist EXCEPT !.last_good = Some(res), !.load_failed = FALSE,
                                           !.cache_hit = cache[v] # None]
    /\ UNCHANGED <<files, session_state, current_year, ticks, offered,
                   anos_selecionados, filtered, mem, filt, proc, call>>
    /\ UNCHANGED pageVars

\* the values the slider is moved to: its ends and the year after the first
SliderPoints(lo, hi) == {lo, Min2(lo + 1, hi), hi}

\* the entries of the view selectbox
ViewOptions == {"Visao Geral", "Analise de Informalidade", "Composicao do Emprego",
                "Crescimento PJ/Informal + FGTS", "Juros no Financiamento Imobiliario"}

\* a page that always says the data are the original ones
SourceText_AlwaysOriginal(using_updated) == "original"

\* the two texts that tell where the data came from
SourceText(using_updated) == IF using_updated THEN "updated" ELSE "original"

\* create_sidebar: the source text, the refresh button and the view selectbox,
\* then the slider over the years of df_construcao; df_construcao['Ano'] of None, or min() of no
\* years, raises and ends the run
create_sidebar ==
    /\ pc = "create_sidebar"
    /\ offered' = offered \cup {"refresh"}
    /\ shown' = [shown EXCEPT !.source = SourceText(loaded.using_updated)]
    /\ session_state' = IF click = "refresh"
                        THEN Put(session_state, "update_requested", TRUE)
                        ELSE session_state
    /\ LET df == IF loaded.df_construcao = None THEN <<>> ELSE loaded.df_construcao[1]
           anos_disponiveis == { df[k].Ano : k \in 1..Len(df) }
       IN  IF anos_disponiveis = {}
           THEN /\ pc' = "idle"
                /\ click' = "none"
                /\ loaded' = LoadFailure
                /\ anos_selecionados' = NoSelection
                /\ view_option' = NoView
                /\ hist' = EndRun(hist)
           ELSE LET lo == CHOOSE y \in anos_disponiveis : \A z \in anos_disponiveis : y <= z
                    hi == CHOOSE y \in anos_disponiveis : \A z \in anos_disponiveis : y >= z
                IN  /\ \E a \in SliderPoints(lo, hi), b \in SliderPoints(lo, hi) :
                          /\ a <= b
                          /\ anos_selecionados' = <<a, b>>
                    /\ \E v \in ViewOptions : view_option' = v
                    /\ pc' = "filter_data"
                    /\ UNCHANGED <<click, loaded, hist>>
    /\ UNCHANGED <<files, cache, current_year, ticks, filtered, mem, df_combined,
                   filt, proc, call>>

\* main: show_data_status(using_updated), then
\* filter_data(df_construcao, df_imobiliarias, anos_selecionados)
main_filter ==
    /\ pc = "filter_data"
    /\ shown' = [shown EXCEPT !.status = SourceText(loaded.using_updated)]
    /\ filtered' = filter_data(loaded.df_construcao[1], loaded.df_imobiliarias[1],
                               anos_selecionados)
    /\ pc' = "view"
    /\ UNCHANGED <<files, cache, session_state, current_year, ticks, click, offered,
                   loaded, anos_selecionados, mem, view_option, df_combined, hist,
                   filt, proc, call>>

\* create_metrics_cards reads .iloc[-1] of both filtered tables
create_metrics_cards_raises(df_c, df_i) == df_c = <<>> \/ df_i = <<>>

\* the rows of right with the year of the left row, in their order
Matches(l, right) == SelectSeq(right, LAMBDA r : r.Ano = l.Ano)

\* pd.merge(left, right, on='Ano'), how='inner': for each left row, in order,
\* one row for each right row of the same year
RECURSIVE MergeInner(_, _)
MergeInner(left, right) ==
    IF left = <<>> THEN <<>>
    ELSE LET m == Matches(Head(left), right)
         IN  [k \in 1..Len(m) |-> [l |-> Head(left), r |-> Some(m[k])]]
             \o MergeInner(Tail(left), right)

\* a left join that drops the left rows without a right row
MergeLeft_DropsUnmatched(left, right) == MergeInner(left, right)

\* pd.merge(left, right, on='Ano', how='left'): as the inner join, and a left
\* row without a right row of its year is kept with the right columns absent
RECURSIVE MergeLeft(_, _)
MergeLeft(left, right) ==
    IF left = <<>> THEN <<>>
    ELSE LET m == Matches(Head(left), right)
         IN  (IF m = <<>> THEN <<[l |-> Head(left), r |-> None]>>
              ELSE [k \in 1..Len(m) |-> [l |-> Head(left), r |-> Some(m[k])]])
             \o MergeLeft(Tail(left), right)

\* the view joining with whatever df_fgts is, a table or None
show_pj_informal_fgts_impact_NoGuard(df_construcao_filtered, df_fgts) ==
    [joined |-> TRUE,
     rows   |-> MergeLeft(df_construcao_filtered,
                          IF df_fgts # None THEN df_fgts[1] ELSE <<>>)]

\* show_pj_informal_fgts_impact: df_combined, joined with FGTS only if loaded
show_pj_informal_fgts_impact(df_construcao_filtered, df_fgts) ==
    IF df_fgts # None
    THEN [joined |-> TRUE, rows |-> MergeLeft(df_construcao_filtered, df_fgts[1])]
    ELSE [joined |-> FALSE,
          rows |-> [k \in 1..Len(df_construcao_filtered) |->
                       [l |-> df_construcao_filtered[k], r |-> None]]]

\* show_analise_economica: df_merged, built only if FGTS was loaded
show_analise_economica(df_construcao_filtered, df_fgts) ==
    IF df_fgts # None
    THEN [joined |-> TRUE, rows |-> MergeInner(df_construcao_filtered, df_fgts[1])]
    ELSE NoCombined

\* the download of create_sidebar_actions: the two filtered tables joined
download_merge(df_construcao_filtered, df_imobiliarias_filtered) ==
    MergeInner(df_construcao_filtered, df_imobiliarias_filtered)

\* main: the routing to the view selected in the sidebar; an exception in the
\* view ends the run
main_view ==
    /\ pc = "view"
    /\ IF view_option = "Visao Geral"
          /\ create_metrics_cards_raises(filtered[1], filtered[2])
       THEN /\ pc' = "idle"
            /\ click' = "none"
            /\ loaded' = LoadFailure
            /\ anos_selecionados' = NoSelection
            /\ filtered' = NoFiltered
            /\ view_option' = NoView
            /\ df_combined' = NoCombined
            /\ hist' = EndRun(hist)
       ELSE /\ pc' = "create_sidebar_actions"
            /\ df_combined' = IF view_option = "Crescimento PJ/Informal + FGTS"
                              THEN show_pj_informal_fgts_impact(filtered[1],
                                                                loaded.df_fgts)
                              ELSE NoCombined
            /\ UNCHANGED <<click, loaded, anos_selecionados, filtered, view_option,
                           hist>>
    /\ UNCHANGED <<files, cache, session_state, current_year, ticks, offered, mem,
                   shown, filt, proc, call>>

\* create_sidebar_actions: the download, then the reset button
create_sidebar_actions ==
    /\ pc = "create_sidebar_actions"
    /\ offered' = offered \cup {"reset"}
    /\ IF click = "reset"
       THEN /\ session_state' = Put(session_state, "data_updated", FALSE)
            /\ cache' = cache_clear(cache)
            /\ hist' = EndRun([hist EXCEPT !.lastOp = "reset"])
            /\ pc' = "rerun"
       ELSE /\ UNCHANGED <<session_state, cache>>
            /\ hist' = EndRun(hist)
            /\ pc' = "idle"
    /\ click' = "none"
    /\ loaded' = LoadFailure
    /\ anos_selecionados' = NoSelection
    /\ filtered' = NoFiltered
    /\ view_option' = NoView
    /\ df_combined' = NoCombined
    /\ UNCHANGED <<files, current_year, ticks, mem, shown, filt, proc, call>>

\* the calendar year changes while the page is idle
NewYear ==
    /\ pc = "idle"
    /\ ticks < MaxTicks
    /\ current_year < MaxYear
    /\ current_year' = current_year + 1
    /\ ticks' = ticks + 1
    /\ UNCHANGED <<files, cache, session_state, pc, click, offered, loaded,
                   anos_selecionados, filtered, mem, hist, filt, proc, call>>
    /\ UNCHANGED pageVars

Next ==
    \/ main_begin
    \/ handle_data_update_begin
    \/ update_normalize
    \/ write_construcao
    \/ write_imobiliarias
    \/ handle_data_update_success
    \/ handle_data_update_failure
    \/ main_load
    \/ create_sidebar
    \/ main_filter
    \/ main_view
    \/ create_sidebar_actions
    \/ NewYear

Spec == Init /\ [][Next]_vars

(* ============ function-level specification of filter_data ============== *)
\* the years and the second column of the rows given to filter_data
FilterYears == 2012..2014
FilterRows == { [Ano |-> y, Total |-> v] : y \in FilterYears, v \in {70, 71} }

TablesUpTo(n) == UNION { [1..m -> FilterRows] : m \in 0..n }

YearRanges == { <<a, b>> \in FilterYears \X FilterYears : a <= b }

SessionOff ==
    /\ files = [f \in FileNames |-> NoFile]
    /\ cache = EmptyCache
    /\ session_state = <<>>
    /\ current_year = EpochYear
    /\ ticks = 0
    /\ pc = "off"
    /\ click = "none"
    /\ offered = {}
    /\ loaded = LoadFailure
    /\ anos_selecionados = NoSelection
    /\ filtered = NoFiltered
    /\ mem = NoTables
    /\ shown = NoShown
    /\ view_option = NoView
    /\ df_combined = NoCombined
    /\ hist = NoHist

sessionVars == <<files, cache, session_state, current_year, ticks, pc, click, offered,
                 loaded, anos_selecionados, filtered, mem, shown, view_option,
                 df_combined, hist>>

InitFilter ==
    /\ SessionOff
    /\ proc = ProcIdle
    /\ call = CallIdle
    /\ \E c \in TablesUpTo(MaxRows), i \in TablesUpTo(1), anos \in YearRanges :
          filt = [phase |-> "input", arg_c |-> c, arg_i |-> i, df_c |-> c, df_i |-> i,
                  anos |-> anos, out |-> NoFiltered, wider |-> anos, again |-> NoFiltered]

\* one call of filter_data on the two tables
filter_apply ==
    /\ filt.phase = "input"
    /\ filt' = [filt EXCEPT !.phase = "filtered",
                            !.out = filter_data(filt.df_c, filt.df_i, filt.anos)]
    /\ UNCHANGED <<sessionVars, proc, call>>

\* a second call, on the result of the first, with a range that contains the first
filter_again ==
    /\ filt.phase = "filtered"
    /\ \E w \in YearRanges :
          /\ w[1] <= filt.anos[1] /\ filt.anos[2] <= w[2]
          /\ filt' = [filt EXCEPT !.phase = "refiltered", !.wider = w,
                                  !.again = filter_data(filt.out[1], filt.out[2], w)]
    /\ UNCHANGED <<sessionVars, proc, call>>

NextFilter == filter_apply \/ filter_again

SpecFilter == InitFilter /\ [][NextFilter]_vars

(* ====== function-level specification of _process_employment_data ======= *)
\* A string is the sequence of its characters.
Digits == {"0", "1", "2", "3", "4", "5", "6", "7", "8", "9"}
DigitValue(ch) ==
    CASE ch = "0" -> 0 [] ch = "1" -> 1 [] ch = "2" -> 2 [] ch = "3" -> 3 [] ch = "4" -> 4
      [] ch = "5" -> 5 [] ch = "6" -> 6 [] ch = "7" -> 7 [] ch = "8" -> 8 [] OTHER -> 9

\* the JSON values of a series entry: null, a string, a number (in tenths)
JsonNull == [type |-> "null", chars |-> <<>>, n |-> 0]
JsonStr(chars) == [type |-> "str", chars |-> chars, n |-> 0]
JsonNum(n) == [type |-> "num", chars |-> <<>>, n |-> n]

\* Python truth value of a series value
Truthy(valor) ==
    CASE valor.type = "null" -> FALSE
      [] valor.type = "str"  -> valor.chars # <<>>
      [] OTHER               -> valor.n # 0

\* valor != '...' and valor != '-'
IsSentinel(valor) ==
    valor.type = "str" /\ valor.chars \in {<<".", ".", ".">>, <<"-">>}

\* the value of a string of digits
RECURSIVE DigitsValue(_)
DigitsValue(chars) ==
    IF chars = <<>> THEN 0
    ELSE DigitsValue(SubSeq(chars, 1, Len(chars) - 1)) * 10 + DigitValue(chars[Len(chars)])

AllDigits(chars) == chars # <<>> /\ \A k \in 1..Len(chars) : chars[k] \in Digits

\* int(periodo[:4]): the year, or a ValueError
ParseYear(periodo) ==
    LET four == SubSeq(periodo, 1, Min2(4, Len(periodo)))
    IN  IF AllDigits(four) THEN [ok |-> TRUE, v |-> DigitsValue(four)]
        ELSE [ok |-> FALSE, v |-> 0]

\* valor.replace(',', '.')
ReplaceComma(chars) == [k \in 1..Len(chars) |-> IF chars[k] = "," THEN "." ELSE chars[k]]

\* float(text) for digits with at most one decimal digit after a point, in
\* tenths; any other text is a ValueError
ParseFloat(chars) ==
    LET dots == { k \in 1..Len(chars) : chars[k] = "." }
    IN  IF dots = {}
        THEN (IF AllDigits(chars) THEN [ok |-> TRUE, v |-> DigitsValue(chars) * 10]
              ELSE [ok |-> FALSE, v |-> 0])
        ELSE LET d == CHOOSE k \in dots : TRUE
                 whole == SubSeq(chars, 1, d - 1)
                 frac  == SubSeq(chars, d + 1, Len(chars))
             IN  IF Cardinality(dots) = 1 /\ AllDigits(whole) /\ AllDigits(frac)
                    /\ Len(frac) = 1
                 THEN [ok |-> TRUE, v |-> DigitsValue(whole) * 10 + DigitsValue(frac)]
                 ELSE [ok |-> FALSE, v |-> 0]

\* float(valor.replace(',', '.')) if isinstance(valor, str) else float(valor)
ToNumber(valor) ==
    IF valor.type = "str" THEN ParseFloat(ReplaceComma(valor.chars))
    ELSE [ok |-> TRUE, v |-> valor.n]

\* the test that lets an entry into the try block
PassesValueTest(valor) == Truthy(valor) /\ ~IsSentinel(valor)

\* the rows appended for the entries, in payload order
RECURSIVE ProcessEntries(_)
ProcessEntries(entries) ==
    IF entries = <<>> THEN <<>>
    ELSE LET e    == Head(entries)
             ano  == ParseYear(e.periodo)
             num  == ToNumber(e.valor)
             rows == IF PassesValueTest(e.valor) /\ ano.ok /\ num.ok
                     THEN <<[Ano |-> ano.v, Valor |-> num.v, Periodo |-> e.periodo]>>
                     ELSE <<>>
         IN  rows \o ProcessEntries(Tail(entries))

\* df.sort_values('Ano'): insertion of each row after the rows of its year
RECURSIVE SortByAno(_)
InsertByAno(sorted, row) ==
    LET k == Cardinality({ j \in 1..Len(sorted) : sorted[j].Ano <= row.Ano })
    IN  SubSeq(sorted, 1, k) \o <<row>> \o SubSeq(sorted, k + 1, Len(sorted))
SortByAno(rows) ==
    IF rows = <<>> THEN <<>>
    ELSE InsertByAno(SortByAno(SubSeq(rows, 1, Len(rows) - 1)), rows[Len(rows)])

process_employment_data(entries) == SortByAno(ProcessEntries(entries))

\* the periods and values a payload is built from
PayloadPeriods == { <<"2", "0", "1", "6", "0", "1">>, <<"2", "0", "1", "5">>, <<"a", "n", "o">> }
PayloadValues ==
    { JsonNull, JsonStr(<<".", ".", ".">>), JsonStr(<<"-">>), JsonStr(<<>>),
      JsonStr(<<"0">>), JsonStr(<<"7", ",", "1">>), JsonStr(<<"x">>),
      JsonNum(0), JsonNum(69) }
PayloadEntries == { [periodo |-> p, valor |-> v] : p \in PayloadPeriods, v \in PayloadValues }

InitProcess ==
    /\ SessionOff
    /\ filt = FiltIdle
    /\ call = CallIdle
    /\ \E entries \in UNION { [1..m -> PayloadEntries] : m \in 0..MaxEntries } :
          proc = [phase |-> "input", raw_data |-> entries, df |-> <<>>]

\* one call of _process_employment_data
process_call ==
    /\ proc.phase = "input"
    /\ proc' = [proc EXCEPT !.phase = "done", !.df = process_employment_data(proc.raw_data)]
    /\ UNCHANGED <<sessionVars, filt, call>>

NextProcess == process_call

SpecProcess == InitProcess /\ [][NextProcess]_vars

(* ============================ properties =============================== *)
UpdatedFiles == {F_CONSTRUCAO_UPDATED, F_IMOBILIARIAS_UPDATED}
TableFiles == {F_CONSTRUCAO, F_IMOBILIARIAS, F_CONSTRUCAO_UPDATED, F_IMOBILIARIAS_UPDATED}

\* the positions of main after a load that returned tables
AfterLoad == {"create_sidebar", "filter_data", "view", "create_sidebar_actions"}

\* the positions at which update_local_data has returned
RefreshReturned == {"update_failed", "update_succeeded"}

\* C1: when update_local_data has returned, with True or with False, either
\* both updated files hold the tables normalized by this refresh or both are
\* exactly as they were when the refresh began.
C1_RefreshAllOrNothing ==
    pc \in RefreshReturned =>
        \/ \A f \in UpdatedFiles : files[f] = hist.pre[f]
        \/ /\ mem.construcao # <<>>
           /\ files[F_CONSTRUCAO_UPDATED] = FileOf(mem.construcao)
           /\ files[F_IMOBILIARIAS_UPDATED] = FileOf(mem.imobiliarias)

\* C2: in a run whose refresh failed, main goes on to the load, data_updated
\* has the value it had before the attempt, and the load returns what the last
\* successful load before the attempt returned.
C2_FailedRefreshKeepsData ==
    (hist.outcome = "failed" /\ pc \in AfterLoad) =>
        /\ session_state["data_updated"] = hist.flag_before
        /\ hist.good_before # None => loaded = hist.good_before[1]

\* C3: data_updated is set from the first run on, and it is true exactly when
\* the last operation among successful refresh and reset was a successful
\* refresh (false when there was none); a failed refresh does not change it.
C3_FlagFollowsLastOperation ==
    /\ pc # "idle" => "data_updated" \in DOMAIN session_state
    /\ "data_updated" \in DOMAIN session_state =>
          (session_state["data_updated"] <=> hist.lastOp = "refresh")

\* a refresh failed after an earlier one succeeded, and the flag is still true
C3_Witness ==
    /\ hist.outcome = "failed"
    /\ hist.lastOp = "refresh"
    /\ "data_updated" \in DOMAIN session_state
    /\ session_state["data_updated"]

\* the positions of the rows of df whose year lies in [a, b]
InRangeAt(df, a, b) == { k \in 1..Len(df) : a <= df[k].Ano /\ df[k].Ano <= b }

\* out holds exactly the rows of df at the positions in range, in their order
ExactlyInRange(out, df, a, b) ==
    LET at == InRangeAt(df, a, b)
    IN  /\ Len(out) = Cardinality(at)
        /\ \A k \in at : out[Cardinality({ j \in at : j <= k })] = df[k]

\* C4: filter_data returns, for each of the two tables, exactly the rows whose
\* year lies in the inclusive range, in input order, the same range for both
\* tables, and the tables passed in are as they were.
C4_FilterExactlyInRange ==
    filt.phase \in {"filtered", "refiltered"} =>
        /\ ExactlyInRange(filt.out[1], filt.arg_c, filt.anos[1], filt.anos[2])
        /\ ExactlyInRange(filt.out[2], filt.arg_i, filt.anos[1], filt.anos[2])
        /\ filt.df_c = filt.arg_c
        /\ filt.df_i = filt.arg_i

\* three rows of which the middle one is outside the range and the others in
C4_Witness ==
    /\ filt.phase = "filtered"
    /\ Len(filt.arg_c) = 3
    /\ Len(filt.out[1]) = 2
    /\ filt.arg_c[2].Ano > filt.anos[2]
    /\ filt.arg_c[3].Ano = filt.anos[2]
    /\ Len(filt.out[2]) = 1

\* C5: filtering the result of a filter with a range that contains the first
\* range (the same range included) returns that result unchanged.
C5_FilterIdempotentUnderWidening ==
    filt.phase = "refiltered" => filt.again = filt.out

\* a strictly wider second range applied to a result that kept some rows only
C5_Witness ==
    /\ filt.phase = "refiltered"
    /\ filt.wider[1] < filt.anos[1]
    /\ filt.wider[2] > filt.anos[2]
    /\ filt.out[1] # <<>>
    /\ Len(filt.out[1]) < Len(filt.arg_c)
    /\ filt.out[2] # <<>>

\* C6: while none of the four table files exists, load_data returns no table
\* for either variant and main never gets past the load: nothing is loaded,
\* selected or filtered.
C6_NoFilesNoTables ==
    (\A f \in TableFiles : ~files[f].exists) =>
        /\ \A v \in BOOLEAN : /\ load_data(files, v).df_construcao = None
                              /\ load_data(files, v).df_imobiliarias = None
        /\ \A v \in BOOLEAN : cache[v] # None =>
              cache[v][1].df_construcao = None /\ cache[v][1].df_imobiliarias = None
        /\ pc \notin AfterLoad
        /\ loaded = LoadFailure
        /\ filtered = NoFiltered

\* a run that was stopped by the failed load, with no table file on disk
C6_Witness ==
    /\ \A f \in TableFiles : ~files[f].exists
    /\ hist.load_failed
    /\ pc = "idle"
    /\ cache[FALSE] = Some(LoadFailure)

\* the rows of a table are the years first..last, one row each, ascending
CoversYears(df, first, last) ==
    /\ Len(df) = last - first + 1
    /\ \A k \in 1..Len(df) : df[k].Ano = first + k - 1

\* C7: a load of the updated variant that follows a successful refresh returns
\* two tables with exactly one row for each year from 2014 to the year of the
\* refresh, in ascending order.
C7_UpdatedCoversEpochToNow ==
    (pc \in AfterLoad /\ hist.fresh /\ loaded.using_updated) =>
        /\ CoversYears(loaded.df_construcao[1], EpochYear, hist.refresh_year)
        /\ CoversYears(loaded.df_imobiliarias[1], EpochYear, hist.refresh_year)

\* the load in the run that follows a successful refresh made after 2014
C7_Witness ==
    /\ pc = "create_sidebar"
    /\ hist.fresh
    /\ loaded.using_updated
    /\ hist.refresh_year > EpochYear
    /\ Len(loaded.df_construcao[1]) = hist.refresh_year - EpochYear + 1

\* C8: the construction rate is at most 65.0 and the real-estate rate at least
\* 35.0, in what get_informality_rate_data returns and in every row of the
\* updated files and of the tables about to be written.
C8_RatesWithinBand ==
    /\ \A t \in {files[F_CONSTRUCAO_UPDATED].rows, mem.construcao} :
          \A k \in 1..Len(t) : t[k].Taxa <= ConstrucaoCap
    /\ \A t \in {files[F_IMOBILIARIAS_UPDATED].rows, mem.imobiliarias} :
          \A k \in 1..Len(t) : t[k].Taxa >= ImobiliariasFloor
    /\ LET d == get_informality_rate_data(current_year)
       IN  /\ \A k \in 1..Len(d.construcao) :
                 d.construcao[k].Taxa_Informalidade <= ConstrucaoCap
           /\ \A k \in 1..Len(d.imobiliarias) :
                 d.imobiliarias[k].Taxa_Informalidade >= ImobiliariasFloor

\* a refresh wrote a construction row whose rate was cut down to the cap
C8_Witness ==
    /\ pc = "update_succeeded"
    /\ \E k \in 1..Len(files[F_CONSTRUCAO_UPDATED].rows) :
          LET row == files[F_CONSTRUCAO_UPDATED].rows[k]
          IN  /\ 538 + (row.Ano - EpochYear) * 5 + (row.Ano % 2) * 20 > ConstrucaoCap
              /\ row.Taxa = ConstrucaoCap
    /\ files[F_IMOBILIARIAS_UPDATED].rows # <<>>

\* |x| <= bound
Within(x, bound) == x <= bound /\ 0 - x <= bound

ClaimKeeps(e) ==
    /\ e.valor.type # "null"
    /\ ~IsSentinel(e.valor)
    /\ ParseYear(e.periodo).ok
    /\ ToNumber(e.valor).ok

\* C10: the rows returned are, one for one, the entries whose value is there,
\* is not "..." or "-" and can be parsed (a value of zero included), with the
\* year and value of the entry, in ascending order of year.
C10_DropsExactlyMissing ==
    proc.phase = "done" =>
        LET entries == proc.raw_data
            df      == proc.df
            kept    == { k \in 1..Len(entries) : ClaimKeeps(entries[k]) }
        IN  /\ Len(df) = Cardinality(kept)
            /\ \A k \in kept :
                  LET y == ParseYear(entries[k].periodo).v
                      v == ToNumber(entries[k].valor).v
                  IN  Cardinality({ j \in 1..Len(df) : df[j].Ano = y /\ df[j].Valor = v })
                      = Cardinality({ j \in kept :
                                        /\ ParseYear(entries[j].periodo).v = y
                                        /\ ToNumber(entries[j].valor).v = v })
            /\ \A j \in 1..Len(df) - 1 : df[j].Ano <= df[j + 1].Ano


\* the positions between the clear of the cache and the return of
\* update_local_data
Refreshing == {"update_local_data", "write_construcao", "write_imobiliarias",
               "update_failed", "update_succeeded"}

\* C11: every cached result is what load_data returns for the files as they
\* are now; the tables main holds after a load are those of the selected
\* variant's files and are the cached ones; and from the clear of the cache to
\* the return of update_local_data the cache stays empty (no load ran).
C11_LoadedIsCurrentFiles ==
    /\ \A v \in BOOLEAN : cache[v] # None => cache[v][1] = load_data(files, v)
    /\ pc \in AfterLoad =>
          /\ loaded = load_data(files, session_state["data_updated"])
          /\ cache[session_state["data_updated"]] = Some(loaded)
    /\ pc \in Refreshing => cache = EmptyCache

\* a load served by the cache after a refresh that rewrote the updated files
C11_Witness ==
    /\ pc \in AfterLoad
    /\ hist.cache_hit
    /\ hist.lastOp = "refresh"
    /\ session_state["data_updated"]
    /\ hist.refresh_year > EpochYear - 1
    /\ loaded = load_data(files, TRUE)

\* the files load_data reads for a variant
VariantFiles(v) == IF v THEN <<F_CONSTRUCAO_UPDATED, F_IMOBILIARIAS_UPDATED>>
                        ELSE <<F_CONSTRUCAO, F_IMOBILIARIAS>>

\* the FGTS file is missing and both files of the selected variant exist
FgtsAloneMissing ==
    /\ ~files[F_FGTS].exists
    /\ \A k \in 1..2 : files[VariantFiles(session_state["data_updated"])[k]].exists

\* C12: with the FGTS file missing and both files of the selected variant
\* present, the load step succeeds with both tables, the selected variant as
\* the reported one and no FGTS table; with no FGTS table the FGTS view is
\* rendered without the join (df_combined is the filtered construction table),
\* and show_analise_economica builds no joined table either.
C12_FgtsIsOptional ==
    [][ /\ (pc = "load_data" /\ FgtsAloneMissing) =>
              /\ pc' = "create_sidebar"
              /\ loaded' = [df_construcao   |-> Some(files[VariantFiles(
                                                 session_state["data_updated"])[1]].rows),
                            df_imobiliarias |-> Some(files[VariantFiles(
                                                 session_state["data_updated"])[2]].rows),
                            df_fgts         |-> None,
                            using_updated   |-> session_state["data_updated"]]
        /\ (pc = "view" /\ loaded.df_fgts = None
                /\ view_option = "Crescimento PJ/Informal + FGTS") =>
              /\ pc' = "create_sidebar_actions"
              /\ ~df_combined'.joined
              /\ df_combined'.rows = [k \in 1..Len(filtered[1]) |->
                                         [l |-> filtered[1][k], r |-> None]]
              /\ ~show_analise_economica(filtered[1], loaded.df_fgts).joined
      ]_vars

\* the FGTS view rendered from tables loaded without the FGTS file
C12_Witness ==
    /\ pc = "create_sidebar_actions"
    /\ view_option = "Crescimento PJ/Informal + FGTS"
    /\ ~files[F_FGTS].exists
    /\ loaded.df_fgts = None
    /\ loaded.df_construcao # None
    /\ ~df_combined.joined
    /\ Len(df_combined.rows) > 1

\* C13: the view of a run whose filtered construction table or filtered
\* real-estate table is empty is rendered to its end: main goes on to
\* create_sidebar_actions instead of being ended by an exception.
C13_EmptyTablesRender ==
    [][ (pc = "view" /\ (filtered[1] = <<>> \/ filtered[2] = <<>>)) =>
            pc' = "create_sidebar_actions" ]_vars

\* the step of main in which load_data returns no tables
LoadFails == pc = "load_data" /\ hist'.load_failed

\* C14: the step in which load_data fails ends the run at once, with nothing
\* filtered, no view, no source text and no button offered, and leaves
\* session_state as it is; with no button on the page, update_requested and
\* data_updated keep their values in every step that follows it.
C14_FailedLoadStopsRun ==
    [][ /\ LoadFails =>
              /\ pc' = "idle"
              /\ offered' = {}
              /\ session_state' = session_state
              /\ filtered' = NoFiltered
              /\ anos_selecionados' = NoSelection
              /\ pageVars' = <<NoShown, NoView, NoCombined>>
        /\ (hist.load_failed /\ pc \in {"idle", "load_data"}) =>
              /\ offered' = {}
              /\ session_state' = session_state
              /\ pc' \in {"idle", "load_data"}
      ]_vars

\* a run that was stopped by a failed load, then run again with the same end
C14_Witness ==
    /\ pc = "idle"
    /\ hist.load_failed
    /\ offered = {}
    /\ shown = NoShown
    /\ "data_updated" \in DOMAIN session_state
    /\ cache[session_state["data_updated"]] = Some(LoadFailure)
    /\ ~session_state["data_updated"]

(* ============= function-level specification of the joins ================ *)
\* the years of the tables given to the joins
JoinYears == 2012..2015

\* the tables of one side: rows of distinct years, in any order
JoinTables(total) ==
    { t \in UNION { [1..m -> { [Ano |-> y, Total |-> total] : y \in JoinYears }]
                    : m \in 0..MaxJoinRows } :
        \A j, k \in 1..Len(t) : j # k => t[j].Ano # t[k].Ano }

InitJoin ==
    /\ SessionOff
    /\ filt = FiltIdle
    /\ proc = ProcIdle
    /\ \E l \in JoinTables(70), r \in JoinTables(35) :
          call = [phase |-> "input", left |-> l, right |-> r, op |-> "none",
                  how |-> "none", out |-> <<>>]

\* create_sidebar_actions: the download table of the two filtered tables
join_download ==
    /\ call.phase = "input"
    /\ call' = [call EXCEPT !.phase = "joined", !.op = "download", !.how = "inner",
                            !.out = download_merge(call.left, call.right)]
    /\ UNCHANGED <<sessionVars, filt, proc>>

\* show_analise_economica: the filtered construction table with FGTS
join_analise_economica ==
    /\ call.phase = "input"
    /\ call' = [call EXCEPT !.phase = "joined", !.op = "analise_economica",
                            !.how = "inner",
                            !.out = show_analise_economica(call.left,
                                                           Some(call.right)).rows]
    /\ UNCHANGED <<sessionVars, filt, proc>>

\* show_pj_informal_fgts_impact: the filtered construction table with FGTS
join_pj_informal_fgts ==
    /\ call.phase = "input"
    /\ call' = [call EXCEPT !.phase = "joined", !.op = "pj_informal_fgts",
                            !.how = "left",
                            !.out = show_pj_informal_fgts_impact(call.left,
                                                                 Some(call.right)).rows]
    /\ UNCHANGED <<sessionVars, filt, proc>>

NextJoin == join_download \/ join_analise_economica \/ join_pj_informal_fgts

SpecJoin == InitJoin /\ [][NextJoin]_vars

\* the years of a table
YearsOf(t) == { t[k].Ano : k \in 1..Len(t) }

\* the row of t for year y
RowOf(t, y) == t[CHOOSE k \in 1..Len(t) : t[k].Ano = y]

\* C15: on tables with unique years, an inner join has exactly one row for
\* each year present in both inputs, made of the two rows of that year, and no
\* other row; the left join has one row for each row of the left table, in
\* its order, with the right row of that year or, when there is none, with
\* the right columns absent.
C15_JoinsOnYear ==
    call.phase = "joined" =>
        /\ call.how = "inner" =>
              /\ { row.l.Ano : row \in { call.out[k] : k \in 1..Len(call.out) } }
                     = YearsOf(call.left) \cap YearsOf(call.right)
              /\ Len(call.out) = Cardinality(YearsOf(call.left) \cap YearsOf(call.right))
              /\ \A k \in 1..Len(call.out) :
                     /\ call.out[k].l = RowOf(call.left, call.out[k].l.Ano)
                     /\ call.out[k].r = Some(RowOf(call.right, call.out[k].l.Ano))
        /\ call.how = "left" =>
              /\ Len(call.out) = Len(call.left)
              /\ \A k \in 1..Len(call.out) :
                     /\ call.out[k].l = call.left[k]
                     /\ call.out[k].r =
                            IF call.left[k].Ano \in YearsOf(call.right)
                            THEN Some(RowOf(call.right, call.left[k].Ano))
                            ELSE None

\* a left join that kept a year without a right row next to a matched year
C15_Witness ==
    /\ call.phase = "joined"
    /\ call.how = "left"
    /\ \E j, k \in 1..Len(call.out) : call.out[j].r = None /\ call.out[k].r # None
    /\ YearsOf(call.right) \ YearsOf(call.left) # {}

(* ========= function-level specification of the moving average =========== *)
\* the monthly rates, in hundredths of a percent
RateValues == {80, 95}

RECURSIVE SumOf(_)
SumOf(s) == IF s = <<>> THEN 0 ELSE Head(s) + SumOf(Tail(s))

\* a rolling mean that needs one observation only
rolling_mean_MinPeriodsOne(s, window) ==
    [i \in 1..Len(s) |->
        Some([sum   |-> SumOf(SubSeq(s, Max2(1, i - window + 1), i)),
              count |-> Min2(i, window)])]

\* Series.rolling(window).mean(): min_periods is the window, so a point with
\* fewer than window observations up to it is NaN; the mean is kept as the sum
\* of the window and the number of observations it is divided by
rolling_mean(s, window) ==
    [i \in 1..Len(s) |->
        IF i < window THEN None
        ELSE Some([sum   |-> SumOf(SubSeq(s, i - window + 1, i)),
                   count |-> window])]

InitRolling ==
    /\ SessionOff
    /\ filt = FiltIdle
    /\ proc = ProcIdle
    /\ \E n \in 0..MaxPoints : \E s \in [1..n -> RateValues] :
          call = [phase |-> "input", valor |-> s, Media_Movel |-> <<>>]

\* show_juros_financiamento: the Media_Movel column of a series that is not
\* empty
show_juros_rolling ==
    /\ call.phase = "input"
    /\ call' = [call EXCEPT !.phase = "rolled",
                            !.Media_Movel = IF call.valor = <<>> THEN <<>>
                                            ELSE rolling_mean(call.valor, RollingWindow)]
    /\ UNCHANGED <<sessionVars, filt, proc>>

NextRolling == show_juros_rolling

SpecRolling == InitRolling /\ [][NextRolling]_vars

\* the points of a series at which the moving average is a number
DefinedPoints(m) == { i \in 1..Len(m) : m[i] # None }

\* C16: the moving average of an n-point series has n points; its first
\* min(n, 5) points are undefined and every later point i is the mean of the
\* six points i-5..i; for n = 12 the defined points are exactly the seven
\* points 6..12.
C16_RollingWindowSix ==
    call.phase = "rolled" =>
        LET s == call.valor
            m == call.Media_Movel
        IN  /\ Len(m) = Len(s)
            /\ \A i \in 1..Min2(Len(s), 5) : m[i] = None
            /\ \A i \in 6..Len(s) :
                   m[i] = Some([sum   |-> s[i-5] + s[i-4] + s[i-3] + s[i-2] + s[i-1] + s[i],
                                count |-> 6])
            /\ Len(s) = 12 => (DefinedPoints(m) = 6..12 /\ Cardinality(DefinedPoints(m)) = 7)

\* a 12-point series with rates that differ, and its moving average
C16_Witness ==
    /\ call.phase = "rolled"
    /\ Len(call.valor) = 12
    /\ call.valor[1] # call.valor[7]
    /\ call.Media_Movel[5] = None
    /\ call.Media_Movel[6] # None
    /\ call.Media_Movel[6] # call.Media_Movel[7]

(* ========== function-level specification of the HTTP client ============= *)
\* Python values a call returns: None, or a list of series entries
PyNone == [py |-> "None", items |-> <<>>]
PyList(items) == [py |-> "list", items |-> items]

\* the bodies a server sends: no JSON text, the text null, a JSON list
BodyTexts == {"", "<html>", "null"}
JsonLists == UNION { [1..m -> PayloadEntries] : m \in 0..MaxBodyEntries }
Bodies == { [text |-> t, list |-> <<>>] : t \in BodyTexts }
          \cup { [text |-> "[...]", list |-> l] : l \in JsonLists }

\* what requests.get meets: no response in 30 s, no connection, or a response
HttpStatuses == {200, 404, 500}
Responses ==
    { [kind |-> k, status |-> 0, body |-> [text |-> "", list |-> <<>>]]
        : k \in {"timeout", "connection_error"} }
    \cup { [kind |-> "response", status |-> s, body |-> b] : s \in HttpStatuses, b \in Bodies }
NoResponse == [kind |-> "none", status |-> 0, body |-> [text |-> "", list |-> <<>>]]

\* response.json() raises on a body that is not JSON text
Decodable(body) == body.text \in {"null", "[...]"}
\* response.json() of a decodable body
JsonLoads(body) == IF body.text = "null" THEN PyNone ELSE PyList(body.list)

\* the client without raise_for_status: the body of an error response is
\* decoded like any other
get_pnad_continua_data_NoStatusCheck(response) ==
    IF response.kind # "response" THEN PyNone
    ELSE IF ~Decodable(response.body) THEN PyNone
    ELSE JsonLoads(response.body)

\* get_pnad_continua_data after requests.get: a RequestException (timeout,
\* connection error, HTTPError of raise_for_status, JSON decode error of
\* response.json()) is caught and None returned; else the decoded body
get_pnad_continua_data(response) ==
    IF response.kind # "response" THEN PyNone
    ELSE IF response.status >= 400 THEN PyNone
    ELSE IF ~Decodable(response.body) THEN PyNone
    ELSE JsonLoads(response.body)

\* get_employment_data_by_sector after the client has returned: 'if data:'
get_employment_data_by_sector(data) ==
    IF data.py = "list" /\ data.items # <<>>
    THEN PyList(process_employment_data(data.items))
    ELSE PyNone

InitFetch ==
    /\ SessionOff
    /\ filt = FiltIdle
    /\ proc = ProcIdle
    /\ \E f \in {"get_pnad_continua_data", "get_employment_data_by_sector"} :
          call = [phase |-> "input", fn |-> f, requests |-> 0, response |-> NoResponse,
                  data |-> PyNone, df |-> PyNone]

\* requests.get(url, timeout=30): the one request of a call
http_request ==
    /\ call.phase = "input"
    /\ \E r \in Responses :
          call' = [call EXCEPT !.phase = "responded", !.requests = call.requests + 1,
                               !.response = r]
    /\ UNCHANGED <<sessionVars, filt, proc>>

\* get_pnad_continua_data returns
client_return ==
    /\ call.phase = "responded"
    /\ call' = [call EXCEPT !.phase = "returned",
                            !.data = get_pnad_continua_data(call.response)]
    /\ UNCHANGED <<sessionVars, filt, proc>>

\* get_employment_data_by_sector returns
employment_return ==
    /\ call.phase = "returned"
    /\ call.fn = "get_employment_data_by_sector"
    /\ call' = [call EXCEPT !.phase = "done",
                            !.df = get_employment_data_by_sector(call.data)]
    /\ UNCHANGED <<sessionVars, filt, proc>>

NextFetch == http_request \/ client_return \/ employment_return

SpecFetch == InitFetch /\ [][NextFetch]_vars

\* the request did not end in a success response with a JSON body
RequestFailed(response) ==
    \/ response.kind \in {"timeout", "connection_error"}
    \/ response.status \notin {200}
    \/ response.body.text \in {"", "<html>"}

\* C17: when get_pnad_continua_data has returned, exactly one request was
\* made; it returned None after a timeout, a connection failure, a non-success
\* status or an undecodable body, and the decoded JSON of the body otherwise;
\* and get_employment_data_by_sector returned None whenever the client did.
C17_OneRequestNoneOnFailure ==
    call.phase \in {"returned", "done"} =>
        /\ call.requests = 1
        /\ RequestFailed(call.response) => call.data = PyNone
        /\ ~RequestFailed(call.response) =>
              call.data = (IF call.response.body.text = "null" THEN PyNone
                           ELSE PyList(call.response.body.list))
        /\ (call.phase = "done" /\ call.data = PyNone) => call.df = PyNone

\* an error response with a JSON body, answered with None by both functions
C17_Witness ==
    /\ call.phase = "done"
    /\ call.response.kind = "response"
    /\ call.response.status = 500
    /\ call.response.body.list # <<>>
    /\ call.requests = 1
    /\ call.data = PyNone
    /\ call.df = PyNone

\* the files no operation writes
BundledFiles == {F_CONSTRUCAO, F_IMOBILIARIAS, F_FGTS}

\* C18: no step changes an original file or the FGTS file; the files change
\* only in the two writes of a refresh, each changing one updated file; the
\* load and the filter write no file, and a reset changes the flag and the
\* cache only, leaving the updated files as they are.
C18_OriginalsNeverWritten ==
    [][ /\ \A f \in BundledFiles : files'[f] = files[f]
        /\ files' # files => pc \in {"write_construcao", "write_imobiliarias"}
        /\ pc = "write_construcao" =>
              files'[F_IMOBILIARIAS_UPDATED] = files[F_IMOBILIARIAS_UPDATED]
        /\ pc = "write_imobiliarias" =>
              files'[F_CONSTRUCAO_UPDATED] = files[F_CONSTRUCAO_UPDATED]
        /\ (pc = "create_sidebar_actions" /\ click = "reset") =>
              /\ files' = files
              /\ session_state' = Put(session_state, "data_updated", FALSE)
              /\ cache' = EmptyCache
      ]_vars

\* the originals loaded again after a refresh and a reset, with the updated
\* files of the refresh still there and the bundled files as they were
C18_Witness ==
    /\ pc \in AfterLoad
    /\ hist.lastOp = "reset"
    /\ ~session_state["data_updated"]
    /\ hist.refresh_year >= EpochYear
    /\ \A f \in UpdatedFiles : files[f].exists
    /\ files[F_CONSTRUCAO_UPDATED].rows # files[F_CONSTRUCAO].rows
    /\ files[F_CONSTRUCAO] = FileOf(BundledConstrucao)
    /\ loaded.df_construcao = Some(BundledConstrucao)

\* C19: after a load that returned tables, the returned flag is the selector
\* and the tables are the contents of the files of that variant; the sidebar
\* text and the status text, once written, say "updated" exactly when that
\* flag is true; and a cached failure carries the flag false.
C19_StatusIsLoadedVariant ==
    /\ pc \in AfterLoad =>
          /\ loaded.using_updated = session_state["data_updated"]
          /\ loaded.df_construcao =
                Some(files[VariantFiles(loaded.using_updated)[1]].rows)
          /\ loaded.df_imobiliarias =
                Some(files[VariantFiles(loaded.using_updated)[2]].rows)
    /\ pc \in {"filter_data", "view", "create_sidebar_actions"} =>
          /\ shown.source \in {"updated", "original"}
          /\ shown.source = "updated" <=> loaded.using_updated
    /\ pc \in {"view", "create_sidebar_actions"} =>
          /\ shown.status \in {"updated", "original"}
          /\ shown.status = "updated" <=> loaded.using_updated
    /\ \A v \in BOOLEAN :
          (cache[v] # None /\ cache[v][1].df_construcao = None) =>
              ~cache[v][1].using_updated

\* the page of a run that loaded the updated files, saying so twice
C19_Witness ==
    /\ pc = "create_sidebar_actions"
    /\ loaded.using_updated
    /\ shown = [source |-> "updated", status |-> "updated"]
    /\ loaded.df_construcao = Some(files[F_CONSTRUCAO_UPDATED].rows)
    /\ files[F_CONSTRUCAO_UPDATED].rows # files[F_CONSTRUCAO].rows

\* C20: outside a running refresh, data_updated = TRUE implies that both
\* updated files exist and that both hold the tables of one and the same
\* refresh (the refresh of some year y).
C20_FlagMeansOneRefreshOnDisk ==
    ("data_updated" \in DOMAIN session_state /\ session_state["data_updated"]
        /\ pc \notin Refreshing) =>
        /\ \A f \in UpdatedFiles : files[f].exists
        /\ \E y \in EpochYear..MaxYear :
              LET written == Normalize(get_informality_rate_data(y))
              IN  /\ files[F_CONSTRUCAO_UPDATED] = FileOf(written.construcao)
                  /\ files[F_IMOBILIARIAS_UPDATED] = FileOf(written.imobiliarias)

\* a refresh was asked for and has not been started yet
UpdateRequested(ss) == "update_requested" \in DOMAIN ss /\ ss["update_requested"]

\* C21: each click on the refresh button causes exactly one refresh:
\* update_requested becomes true only in create_sidebar of a run started by
\* that click; a run that starts with the request pending sets it back to
\* false and executes the refresh before the load, and no refresh starts any
\* other way; the request is false while the refresh runs and at the rerun
\* after it; and a run started by a click on the button ends with the request
\* of that click pending, to be executed by the next run.
C21_OneRefreshPerClick ==
    [][ /\ (~UpdateRequested(session_state) /\ UpdateRequested(session_state')) =>
              (pc = "create_sidebar" /\ click = "refresh")
        /\ (pc \in {"idle", "rerun"} /\ pc' # pc /\ UpdateRequested(session_state)) =>
              (pc' = "handle_data_update" /\ ~UpdateRequested(session_state'))
        /\ pc' = "handle_data_update" =>
              (pc \in {"idle", "rerun"} /\ UpdateRequested(session_state))
        /\ pc' \in {"handle_data_update", "rerun"} \cup Refreshing =>
              ~UpdateRequested(session_state')
        /\ (click = "refresh" /\ click' = "none") => UpdateRequested(session_state')
      ]_vars

\* a file of the variant v is missing
VariantIncomplete(v) ==
    IF v THEN ~files[F_CONSTRUCAO_UPDATED].exists \/ ~files[F_IMOBILIARIAS_UPDATED].exists
    ELSE ~files[F_CONSTRUCAO].exists \/ ~files[F_IMOBILIARIAS].exists

\* the result holds the two tables of the files of variant v
FromVariant(res, v) ==
    /\ res.using_updated = v
    /\ res.df_construcao =
          Some(files[IF v THEN F_CONSTRUCAO_UPDATED ELSE F_CONSTRUCAO].rows)
    /\ res.df_imobiliarias =
          Some(files[IF v THEN F_IMOBILIARIAS_UPDATED ELSE F_IMOBILIARIAS].rows)

\* C22: load_data never falls back to the other variant: for either selector,
\* with a file of that variant missing it returns the error outcome whatever
\* files the other variant has, and otherwise both tables are those of that
\* variant's files; the same holds for what the cache keeps; and the load step
\* of main with a file of the selected variant missing ends the run with the
\* error outcome.
C22_NoFallbackToOtherVariant ==
    /\ [](\A v \in BOOLEAN :
            /\ IF VariantIncomplete(v) THEN load_data(files, v) = LoadFailure
               ELSE FromVariant(load_data(files, v), v)
            /\ cache[v] # None =>
                  IF VariantIncomplete(v) THEN cache[v][1] = LoadFailure
                  ELSE FromVariant(cache[v][1], v))
    /\ [][ (pc = "load_data" /\ VariantIncomplete(session_state["data_updated"])) =>
              (pc' = "idle" /\ loaded' = LoadFailure /\ hist'.load_failed) ]_vars

\* a load that failed for a missing original file while both updated files
\* and the other original file were on disk
C22_Witness ==
    /\ pc = "idle"
    /\ hist.load_failed
    /\ "data_updated" \in DOMAIN session_state
    /\ ~session_state["data_updated"]
    /\ ~files[F_CONSTRUCAO].exists
    /\ files[F_IMOBILIARIAS].exists
    /\ \A f \in UpdatedFiles : files[f].exists
    /\ cache[FALSE] = Some(LoadFailure)

====
